---- MODULE Spec2Model ----
(***************************************************************************)
(* SLO evaluation engine of packages/api: the status evaluator             *)
(* (getSLOStatus), the burn-rate series builder (getSLOBurnRate) and the   *)
(* alert evaluator (checkSLOBurnAlerts, sendSLOBurnAlert).                 *)
(*                                                                         *)
(* Numbers.  A JavaScript number is modelled as an exact rational          *)
(* [num, den] in lowest terms with den > 0, plus Infinity = [1, 0].  The   *)
(* arithmetic below is therefore the real-number arithmetic of the         *)
(* formulas; the rounding of IEEE-754 doubles is not modelled.             *)
(* Times are milliseconds, as in the code, counted from the first tick.    *)
(***************************************************************************)
EXTENDS Integers, Sequences, FiniteSets, TLC

VARIABLES
    slo,            \* the SLO document found by SLO.findOne
    webhook,        \* TRUE iff the burn-alert channel resolves to a webhook
    now,            \* Date.now()
    data,           \* rows of default.slo_aggregates of this SLO inside the queried range
    statusResult,   \* what the last getSLOStatus call returned
    burnRateResult, \* what the last getSLOBurnRate call returned
    tick,           \* the last scheduler tick: its status, its alert decision and dispatch
    alertLog,       \* the alerts fired so far, oldest first
    ticks,          \* number of scheduler ticks taken
    aggregates,     \* the table default.slo_aggregates, rows of every SLO
    rawEvents,      \* the events of the SLO's source table
    call,           \* the last read request served against the tables, and its outcome
    batch,          \* one scheduler tick over several SLOs
    workers,        \* two overlapping ticks evaluating the same SLO
    cloud,          \* the cloud-provider connections and the collector run over them
    readiness       \* a service, its stored checks and its stored score

vars == <<slo, webhook, now, data, statusResult, burnRateResult, tick, alertLog, ticks,
          aggregates, rawEvents, call, batch, workers, cloud, readiness>>

\* The state of the overlapping ticks and of the collector and readiness tasks, which
\* the actions of the SLO engine leave alone
taskVars == <<workers, cloud, readiness>>

\* The tables, the request log and the batch, which the single-SLO actions leave alone
storeVars == <<aggregates, rawEvents, call, batch>>

-----------------------------------------------------------------------------
(* Bounds of the model *)

MaxBuckets == 2      \* aggregate rows in the queried range
MaxCount == 2        \* numerator_count / denominator_count of one row
MaxThresholds == 2   \* configured burn-alert thresholds
MaxErrors == 2       \* bad events out of TickDenominator seen by one tick
MaxTicks == 2        \* scheduler ticks
MaxRows == 2         \* rows of default.slo_aggregates, of all SLOs together
MaxSlos == 3         \* SLOs evaluated by one scheduler tick

-----------------------------------------------------------------------------
(* JavaScript numbers as exact rationals *)

Abs(i) == IF i < 0 THEN -i ELSE i

RECURSIVE GCD(_, _)
GCD(a, b) == IF b = 0 THEN a ELSE GCD(b, a % b)

\* The rational n/d (d # 0) in lowest terms with a positive denominator.
Num(n, d) ==
    LET g == GCD(Abs(n), Abs(d))
        s == IF d < 0 THEN -1 ELSE 1
    IN  [num |-> s * (n \div g), den |-> s * (d \div g)]

Whole(i) == [num |-> i, den |-> 1]

Infinity == [num |-> 1, den |-> 0]

IsFinite(x) == x.den # 0

NumLT(x, y) ==
    IF ~IsFinite(x) THEN FALSE
    ELSE IF ~IsFinite(y) THEN TRUE
    ELSE x.num * y.den < y.num * x.den

NumLE(x, y) == x = y \/ NumLT(x, y)

NumGT(x, y) == NumLT(y, x)

NumGE(x, y) == NumLE(y, x)

NumSub(x, y) ==
    LET g == GCD(x.den, y.den)
        l == (x.den \div g) * y.den
    IN  Num(x.num * (l \div x.den) - y.num * (l \div y.den), l)

NumMul(x, y) ==
    LET g1 == GCD(Abs(x.num), y.den)
        g2 == GCD(Abs(y.num), x.den)
    IN  Num((x.num \div g1) * (y.num \div g2), (x.den \div g2) * (y.den \div g1))

\* x / y for y # 0 and y finite
NumDiv(x, y) == NumMul(x, Num(y.den, y.num))

NumMax(x, y) == IF NumLT(x, y) THEN y ELSE x

-----------------------------------------------------------------------------
(* The SLO document *)

Severities == {"warning", "critical"}

HEALTHY == "healthy"
AT_RISK == "at_risk"
BREACHED == "breached"

\* targetValue, in percent
TargetValues == {Whole(50), Whole(90), Whole(99), Num(999, 10), Whole(100)}

\* timeWindow, a duration string read by ms()
TimeWindows == {"1h", "1d"}

ms(w) == IF w = "1h" THEN 60 * 60 * 1000 ELSE 24 * 60 * 60 * 1000

NoBurnAlerts == [present |-> FALSE, enabled |-> FALSE, thresholds |-> <<>>]

NoAlertState == [present |-> FALSE, severity |-> "none", timestamp |-> 0]

-----------------------------------------------------------------------------
(* Storage: default.slo_aggregates *)

\* The counts of one bucket row; the writer is not bound to numerator <= denominator here
BucketCounts == [numerator_count : 0..MaxCount, denominator_count : 0..MaxCount]

BucketMs == 60 * 1000

\* The answer of a query over the rows: one row per bucket timestamp, ascending
\* (GROUP BY timestamp ORDER BY timestamp ASC)
WithTimestamps(counts) ==
    [i \in 1..Len(counts) |->
        [timestamp |-> i * BucketMs,
         numerator_count |-> counts[i].numerator_count,
         denominator_count |-> counts[i].denominator_count]]

RECURSIVE SeqsUpTo(_, _)
SeqsUpTo(S, n) ==
    IF n = 0 THEN {<<>>}
    ELSE LET shorter == SeqsUpTo(S, n - 1)
         IN  shorter \cup {Append(q, x) : q \in {r \in shorter : Len(r) = n - 1}, x \in S}

RECURSIVE SumNumerator(_)
SumNumerator(rows) ==
    IF rows = <<>> THEN 0 ELSE Head(rows).numerator_count + SumNumerator(Tail(rows))

RECURSIVE SumDenominator(_)
SumDenominator(rows) ==
    IF rows = <<>> THEN 0 ELSE Head(rows).denominator_count + SumDenominator(Tail(rows))

\* statusQuery: sum(numerator_count), sum(denominator_count) over the rows of the
\* window; Number(x || 0) of each sum.
StatusQuery(rows) ==
    [numerator |-> SumNumerator(rows), denominator |-> SumDenominator(rows)]

-----------------------------------------------------------------------------
(* getSLOStatus: the computation on the two sums *)

Achieved(numerator, denominator) ==
    IF denominator > 0
    THEN NumMul(Num(numerator, denominator), Whole(100))
    ELSE Whole(100)

ErrorBudgetTotal(targetValue, timeWindowMs) ==
    NumMul(NumSub(Whole(1), NumDiv(targetValue, Whole(100))), Whole(timeWindowMs))

\* Mutant: half of the missed share of the window counts as used
ErrorBudgetUsedHalved(achieved, timeWindowMs) ==
    NumMul(NumSub(Whole(1), NumDiv(achieved, Whole(100))), Num(timeWindowMs, 2))

ErrorBudgetUsed(achieved, timeWindowMs) ==
    NumMul(NumSub(Whole(1), NumDiv(achieved, Whole(100))), Whole(timeWindowMs))

\* Mutant: the remaining budget is not clamped at zero
ErrorBudgetRemainingUnclamped(achieved, targetValue, timeWindowMs) ==
    NumSub(ErrorBudgetTotal(targetValue, timeWindowMs),
           ErrorBudgetUsed(achieved, timeWindowMs))

ErrorBudgetRemaining(achieved, targetValue, timeWindowMs) ==
    NumMax(Whole(0),
           NumSub(ErrorBudgetTotal(targetValue, timeWindowMs),
                  ErrorBudgetUsed(achieved, timeWindowMs)))

\* Mutant: the remaining share is not scaled to percent
ErrorBudgetRemainingFraction(achieved, targetValue, timeWindowMs) ==
    LET errorBudgetTotal == ErrorBudgetTotal(targetValue, timeWindowMs)
    IN  IF NumGT(errorBudgetTotal, Whole(0))
        THEN NumDiv(ErrorBudgetRemaining(achieved, targetValue, timeWindowMs),
                    errorBudgetTotal)
        ELSE Whole(0)

ErrorBudgetRemainingPercent(achieved, targetValue, timeWindowMs) ==
    LET errorBudgetTotal == ErrorBudgetTotal(targetValue, timeWindowMs)
    IN  IF NumGT(errorBudgetTotal, Whole(0))
        THEN NumMul(NumDiv(ErrorBudgetRemaining(achieved, targetValue, timeWindowMs),
                           errorBudgetTotal),
                    Whole(100))
        ELSE Whole(0)

ExpectedErrorRate(targetValue) == NumSub(Whole(1), NumDiv(targetValue, Whole(100)))

ActualErrorRate(numerator, denominator) ==
    IF denominator > 0
    THEN NumSub(Whole(1), Num(numerator, denominator))
    ELSE Whole(0)

\* Mutant: the success rate is taken for the error rate
BurnRateOfSuccesses(numerator, denominator, targetValue) ==
    LET expectedErrorRate == ExpectedErrorRate(targetValue)
        actualErrorRate == IF denominator > 0 THEN Num(numerator, denominator)
                           ELSE Whole(0)
    IN  IF NumGT(expectedErrorRate, Whole(0))
        THEN NumDiv(actualErrorRate, expectedErrorRate)
        ELSE IF NumGT(actualErrorRate, Whole(0)) THEN Infinity ELSE Whole(0)

BurnRate(numerator, denominator, targetValue) ==
    LET expectedErrorRate == ExpectedErrorRate(targetValue)
        actualErrorRate == ActualErrorRate(numerator, denominator)
    IN  IF NumGT(expectedErrorRate, Whole(0))
        THEN NumDiv(actualErrorRate, expectedErrorRate)
        ELSE IF NumGT(actualErrorRate, Whole(0)) THEN Infinity ELSE Whole(0)

\* Mutant: the target itself does not count as met
StatusStrictTarget(achieved, targetValue, errorBudgetRemainingPercent) ==
    IF NumGT(achieved, targetValue) THEN HEALTHY
    ELSE IF NumGT(errorBudgetRemainingPercent, Whole(0))
            /\ NumLE(errorBudgetRemainingPercent, Whole(10))
         THEN AT_RISK
    ELSE BREACHED

\* Mutant: an exhausted budget counts as at risk
StatusZeroBudgetAtRisk(achieved, targetValue, errorBudgetRemainingPercent) ==
    IF NumGE(achieved, targetValue) THEN HEALTHY
    ELSE IF NumGE(errorBudgetRemainingPercent, Whole(0))
            /\ NumLE(errorBudgetRemainingPercent, Whole(10))
         THEN AT_RISK
    ELSE BREACHED

Status(achieved, targetValue, errorBudgetRemainingPercent) ==
    IF NumGE(achieved, targetValue) THEN HEALTHY
    ELSE IF NumGT(errorBudgetRemainingPercent, Whole(0))
            /\ NumLE(errorBudgetRemainingPercent, Whole(10))
         THEN AT_RISK
    ELSE BREACHED

\* The result of a call that has not been made
NoResult == [kind |-> "none"]

\* return null
NullResult == [kind |-> "null"]

\* "If no data, return empty state": the early return, which has no burnRate
EmptyState(targetValue) ==
    [kind |-> "status",
     achieved |-> Whole(100), target |-> targetValue,
     errorBudgetRemaining |-> Whole(100), status |-> HEALTHY,
     numerator |-> 0, denominator |-> 0]

\* Mutant: no early return for an empty window
ComputeStatusNoEmptyState(numerator, denominator, targetValue, timeWindowMs) ==
    LET achieved == Achieved(numerator, denominator)
        errorBudgetRemainingPercent ==
            ErrorBudgetRemainingPercent(achieved, targetValue, timeWindowMs)
    IN  [kind |-> "status",
         achieved |-> achieved, target |-> targetValue,
         errorBudgetRemaining |-> errorBudgetRemainingPercent,
         status |-> Status(achieved, targetValue, errorBudgetRemainingPercent),
         numerator |-> numerator, denominator |-> denominator,
         burnRate |-> BurnRate(numerator, denominator, targetValue)]

ComputeStatus(numerator, denominator, targetValue, timeWindowMs) ==
    IF denominator = 0 /\ numerator = 0 THEN EmptyState(targetValue)
    ELSE LET achieved == Achieved(numerator, denominator)
             errorBudgetRemainingPercent ==
                 ErrorBudgetRemainingPercent(achieved, targetValue, timeWindowMs)
         IN  [kind |-> "status",
              achieved |-> achieved, target |-> targetValue,
              errorBudgetRemaining |-> errorBudgetRemainingPercent,
              status |-> Status(achieved, targetValue, errorBudgetRemainingPercent),
              numerator |-> numerator, denominator |-> denominator,
              burnRate |-> BurnRate(numerator, denominator, targetValue)]

\* Mutant: a failed query is thrown on to the caller
getSLOStatusRethrowing(found, storageOk, rows, doc) ==
    IF ~found THEN NullResult
    ELSE IF ~storageOk THEN [kind |-> "threw"]
    ELSE LET statusData == StatusQuery(rows)
         IN  ComputeStatus(statusData.numerator, statusData.denominator,
                           doc.targetValue, ms(doc.timeWindow))

\* getSLOStatus(sloId, teamId, realtime = false): found is the outcome of
\* SLO.findOne, storageOk that of the ClickHouse query (a failure is caught and
\* logged, and the function falls through to return null).
getSLOStatus(found, storageOk, rows, doc) ==
    IF ~found THEN NullResult
    ELSE IF ~storageOk THEN NullResult
    ELSE LET statusData == StatusQuery(rows)
         IN  ComputeStatus(statusData.numerator, statusData.denominator,
                           doc.targetValue, ms(doc.timeWindow))

-----------------------------------------------------------------------------
(* getSLOBurnRate: one point per row of the query's answer *)

\* Mutant: a bucket without events has achieved 0
PointAchievedZeroWhenEmpty(num, den) ==
    IF den > 0 THEN NumMul(Num(num, den), Whole(100)) ELSE Whole(0)

PointAchieved(num, den) ==
    IF den > 0 THEN NumMul(Num(num, den), Whole(100)) ELSE Whole(100)

\* Mutant: a 100% target always gives burn rate 0
PointBurnRateNoInfinity(num, den, targetValue) ==
    LET expectedErrorRate == NumSub(Whole(1), NumDiv(targetValue, Whole(100)))
        actualErrorRate == IF den > 0 THEN NumSub(Whole(1), Num(num, den)) ELSE Whole(0)
    IN  IF NumGT(expectedErrorRate, Whole(0))
        THEN NumDiv(actualErrorRate, expectedErrorRate)
        ELSE Whole(0)

PointBurnRate(num, den, targetValue) ==
    LET expectedErrorRate == NumSub(Whole(1), NumDiv(targetValue, Whole(100)))
        actualErrorRate == IF den > 0 THEN NumSub(Whole(1), Num(num, den)) ELSE Whole(0)
    IN  IF NumGT(expectedErrorRate, Whole(0))
        THEN NumDiv(actualErrorRate, expectedErrorRate)
        ELSE IF NumGT(actualErrorRate, Whole(0)) THEN Infinity ELSE Whole(0)

BurnRatePoint(d, targetValue) ==
    [timestamp |-> d.timestamp,
     achieved |-> PointAchieved(d.numerator_count, d.denominator_count),
     burnRate |-> PointBurnRate(d.numerator_count, d.denominator_count, targetValue),
     errorBudgetRemaining |-> Whole(0)]

\* getSLOBurnRate(sloId, teamId, timeStart, timeEnd): throws when the SLO is not
\* found or the query fails, else maps the rows (one per bucket timestamp).
getSLOBurnRate(found, storageOk, rows, doc) ==
    IF ~found THEN [kind |-> "error", message |-> "SLO not found", points |-> <<>>]
    ELSE IF ~storageOk THEN [kind |-> "error", message |-> "storage", points |-> <<>>]
    ELSE [kind |-> "series", message |-> "",
          points |-> [i \in 1..Len(rows) |-> BurnRatePoint(rows[i], doc.targetValue)]]

-----------------------------------------------------------------------------
(* The read paths against the tables: SLO.findOne, the WHERE clauses of the   *)
(* queries and the formatting of their time parameters                       *)

NoCall == [op |-> "none"]

SecondMs == 1000

\* date.toISOString().slice(0, 19).replace('T', ' '): the milliseconds are cut off
TruncateToSecond(t) == (t \div SecondMs) * SecondMs

\* Mutant: the team of the request is not looked at
FindOneIgnoringTeam(doc, sloId, teamId) == doc.id = sloId

\* SLO.findOne({ _id: sloId, team: teamId }) against the one stored document
FindOne(doc, sloId, teamId) == doc.id = sloId /\ doc.team = teamId

\* realtime && slo.filter && slo.goodCondition
RealtimeMode(doc, realtime) == realtime /\ doc.filter /\ doc.goodCondition

RECURSIVE SeqOfSet(_)
SeqOfSet(S) ==
    IF S = {} THEN <<>>
    ELSE LET x == CHOOSE y \in S : TRUE
         IN  <<x>> \o SeqOfSet(S \ {x})

RECURSIVE Ascending(_)
Ascending(T) ==
    IF T = {} THEN <<>>
    ELSE LET least == CHOOSE x \in T : \A y \in T : x <= y
         IN  <<least>> \o Ascending(T \ {least})

\* Mutant: the status query sums the rows of every SLO
StatusRowsOfAnySLO(table, sloId, windowStart) ==
    SeqOfSet({r \in table : r.timestamp >= TruncateToSecond(windowStart)})

\* FROM default.slo_aggregates WHERE slo_id = {sloId} AND timestamp >= {windowStart}
StatusRows(table, sloId, windowStart) ==
    SeqOfSet({r \in table : /\ r.slo_id = sloId
                            /\ r.timestamp >= TruncateToSecond(windowStart)})

\* countIf(goodCondition) as numerator, count() as denominator FROM the source table
\* WHERE filter AND Timestamp >= {startTime} AND Timestamp <= {endTime}
RealtimeQuery(events, windowStart, dateNow) ==
    LET counted == {e \in events : /\ e.matchesFilter
                                   /\ e.timestamp >= TruncateToSecond(windowStart)
                                   /\ e.timestamp <= TruncateToSecond(dateNow)}
    IN  [numerator |-> Cardinality({e \in counted : e.good}),
         denominator |-> Cardinality(counted)]

\* WHERE slo_id = {sloId} AND timestamp >= {timeStart} AND timestamp <= {timeEnd}
BurnRateRows(table, sloId, timeStart, timeEnd) ==
    {r \in table : /\ r.slo_id = sloId
                   /\ r.timestamp >= TruncateToSecond(timeStart)
                   /\ r.timestamp <= TruncateToSecond(timeEnd)}

\* SELECT timestamp, sum(numerator_count), sum(denominator_count) ...
\* GROUP BY timestamp ORDER BY timestamp ASC
BurnRateQuery(table, sloId, timeStart, timeEnd) ==
    LET selected == BurnRateRows(table, sloId, timeStart, timeEnd)
        stamps == Ascending({r.timestamp : r \in selected})
        Group(t) == SeqOfSet({r \in selected : r.timestamp = t})
    IN  [i \in 1..Len(stamps) |->
            [timestamp |-> stamps[i],
             numerator_count |-> SumNumerator(Group(stamps[i])),
             denominator_count |-> SumDenominator(Group(stamps[i]))]]

\* One getSLOStatus(sloId, teamId, realtime) at dateNow: what it returns and how
\* many ClickHouse queries it issued.  Without realtime mode (realtime not asked,
\* or filter or goodCondition missing) the aggregates are read.
getSLOStatusCall(doc, table, events, sloId, teamId, realtime, storageOk, dateNow) ==
    LET found == FindOne(doc, sloId, teamId)
        windowStart == dateNow - ms(doc.timeWindow)
    IN  IF ~found THEN [result |-> getSLOStatus(FALSE, storageOk, <<>>, doc), queries |-> 0]
        ELSE IF RealtimeMode(doc, realtime)
        THEN [result |-> IF ~storageOk THEN getSLOStatus(TRUE, FALSE, <<>>, doc)
                         ELSE LET counts == RealtimeQuery(events, windowStart, dateNow)
                              IN  ComputeStatus(counts.numerator, counts.denominator,
                                                doc.targetValue, ms(doc.timeWindow)),
              queries |-> 1]
        ELSE [result |-> getSLOStatus(TRUE, storageOk,
                                      StatusRows(table, sloId, windowStart), doc),
              queries |-> 1]

\* One getSLOBurnRate(sloId, teamId, timeStart, timeEnd)
getSLOBurnRateCall(doc, table, sloId, teamId, timeStart, timeEnd, storageOk) ==
    LET found == FindOne(doc, sloId, teamId)
    IN  [result |-> getSLOBurnRate(found, storageOk,
                                   BurnRateQuery(table, sloId, timeStart, timeEnd), doc),
         queries |-> IF found THEN 1 ELSE 0]

-----------------------------------------------------------------------------
(* checkSLOBurnAlerts *)

OneHourMs == 60 * 60 * 1000

\* Array.prototype.sort with (a, b) => b.burnRate - a.burnRate: descending by
\* burnRate and stable, so thresholds of equal burnRate keep their configured order.
RECURSIVE InsertThreshold(_, _)
InsertThreshold(sorted, x) ==
    IF sorted = <<>> THEN <<x>>
    ELSE IF NumLT(Head(sorted).burnRate, x.burnRate) THEN <<x>> \o sorted
    ELSE <<Head(sorted)>> \o InsertThreshold(Tail(sorted), x)

RECURSIVE SortedThresholds(_)
SortedThresholds(thresholds) ==
    IF thresholds = <<>> THEN <<>>
    ELSE InsertThreshold(SortedThresholds(SubSeq(thresholds, 1, Len(thresholds) - 1)),
                         thresholds[Len(thresholds)])

\* Mutant: a threshold is exceeded only by a strictly greater burn rate
FirstExceededStrictly(sortedThresholds, burnRate, i) ==
    LET above == {j \in i..Len(sortedThresholds) :
                     NumGT(burnRate, sortedThresholds[j].burnRate)}
    IN  IF above = {} THEN 0 ELSE CHOOSE j \in above : \A k \in above : j <= k

\* The position in sortedThresholds of the first threshold with
\* burnRate >= threshold.burnRate, 0 when the loop ends without one.
RECURSIVE FirstExceeded(_, _, _)
FirstExceeded(sortedThresholds, burnRate, i) ==
    IF i > Len(sortedThresholds) THEN 0
    ELSE IF NumGE(burnRate, sortedThresholds[i].burnRate) THEN i
    ELSE FirstExceeded(sortedThresholds, burnRate, i + 1)

NoThreshold == [burnRate |-> Whole(0), severity |-> "none"]

\* Mutant: when no threshold is exceeded the lowest one is taken
CandidateOrLowest(thresholds, burnRate) ==
    LET sortedThresholds == SortedThresholds(thresholds)
        i == FirstExceeded(sortedThresholds, burnRate, 1)
    IN  IF i = 0 THEN sortedThresholds[Len(sortedThresholds)] ELSE sortedThresholds[i]

\* The threshold at which the loop stops, NoThreshold when none is exceeded
Candidate(thresholds, burnRate) ==
    LET sortedThresholds == SortedThresholds(thresholds)
        i == FirstExceeded(sortedThresholds, burnRate, 1)
    IN  IF i = 0 THEN NoThreshold ELSE sortedThresholds[i]

\* Mutant: the last alert suppresses whatever its severity
ShouldAlertIgnoringSeverity(lastAlert, threshold, dateNow) ==
    LET oneHourAgo == dateNow - OneHourMs
    IN  \/ ~lastAlert.present
        \/ lastAlert.timestamp < oneHourAgo

\* Mutant: an alert exactly one hour old no longer suppresses
ShouldAlertAtOneHour(lastAlert, threshold, dateNow) ==
    LET oneHourAgo == dateNow - OneHourMs
    IN  \/ ~lastAlert.present
        \/ lastAlert.severity # threshold.severity
        \/ lastAlert.timestamp <= oneHourAgo

\* Mutant: the last alert suppresses for half an hour only
ShouldAlertAfterHalfHour(lastAlert, threshold, dateNow) ==
    LET halfHourAgo == dateNow - 30 * 60 * 1000
    IN  \/ ~lastAlert.present
        \/ lastAlert.severity # threshold.severity
        \/ lastAlert.timestamp < halfHourAgo

ShouldAlert(lastAlert, threshold, dateNow) ==
    LET oneHourAgo == dateNow - OneHourMs
    IN  \/ ~lastAlert.present
        \/ lastAlert.severity # threshold.severity
        \/ lastAlert.timestamp < oneHourAgo

NoAlert == [shouldAlert |-> FALSE, severity |-> "none"]

\* Mutant: burnAlerts.enabled is not looked at
checkSLOBurnAlertsIgnoringEnabled(doc, burnRate, hook, dateNow) ==
    IF ~doc.burnAlerts.present \/ Len(doc.burnAlerts.thresholds) = 0
    THEN NoAlert
    ELSE IF ~hook THEN NoAlert
    ELSE LET threshold == Candidate(doc.burnAlerts.thresholds, burnRate)
         IN  IF threshold = NoThreshold THEN NoAlert
             ELSE IF ShouldAlert(doc.lastBurnAlertState, threshold, dateNow)
             THEN [shouldAlert |-> TRUE, severity |-> threshold.severity]
             ELSE NoAlert

checkSLOBurnAlerts(doc, burnRate, hook, dateNow) ==
    IF ~doc.burnAlerts.present \/ ~doc.burnAlerts.enabled
       \/ Len(doc.burnAlerts.thresholds) = 0
    THEN NoAlert
    ELSE IF ~hook THEN NoAlert
    ELSE LET threshold == Candidate(doc.burnAlerts.thresholds, burnRate)
         IN  IF threshold = NoThreshold THEN NoAlert
             ELSE IF ShouldAlert(doc.lastBurnAlertState, threshold, dateNow)
             THEN [shouldAlert |-> TRUE, severity |-> threshold.severity]
             ELSE NoAlert

-----------------------------------------------------------------------------
(* The scheduler tick: status, then alert evaluation, dispatch and the update *)
(* of lastBurnAlertState                                                     *)

NoTick == [kind |-> "none"]

NoBatch == [kind |-> "none"]

NoWorkers == [kind |-> "none"]

NoCloud == [kind |-> "none"]

NoReadiness == [kind |-> "none"]

\* Tick period of the scheduler
TickPeriods == {30 * 60 * 1000, 60 * 60 * 1000}

\* The windowed sums a tick reads: up to MaxErrors bad events out of 10
TickSums == {[numerator |-> 10 - e, denominator |-> 10] : e \in 0..MaxErrors}

AlertState(severity, timestamp) ==
    [present |-> TRUE, severity |-> severity, timestamp |-> timestamp]

\* One evaluation of the SLO by the scheduler at time `at`
Evaluate(doc, hook, at, storageOk, sums, delivered) ==
    IF ~storageOk
    THEN [kind |-> "unavailable", at |-> at, prior |-> doc.lastBurnAlertState]
    ELSE LET status == ComputeStatus(sums.numerator, sums.denominator,
                                     doc.targetValue, ms(doc.timeWindow))
             decision == checkSLOBurnAlerts(doc, status.burnRate, hook, at)
         IN  [kind |-> "evaluated", at |-> at, prior |-> doc.lastBurnAlertState,
              status |-> status, decision |-> decision,
              dispatch |-> IF ~decision.shouldAlert THEN "none"
                           ELSE IF delivered THEN "sent" ELSE "failed"]

Fired(t) == t.kind = "evaluated" /\ t.decision.shouldAlert

\* The outcomes of the dispatch: sendSLOBurnAlert returns or rethrows
Deliveries(doc, hook, at, sums) ==
    IF Fired(Evaluate(doc, hook, at, TRUE, sums, TRUE)) THEN BOOLEAN ELSE {TRUE}

\* Mutant: lastBurnAlertState is written only after a delivered notification
RecordOnDelivery(t) ==
    /\ now' = t.at
    /\ tick' = t
    /\ slo' = IF Fired(t) /\ t.dispatch = "sent"
              THEN [slo EXCEPT !.lastBurnAlertState =
                                   AlertState(t.decision.severity, t.at)]
              ELSE slo
    /\ alertLog' = IF Fired(t)
                   THEN Append(alertLog,
                               [severity |-> t.decision.severity, timestamp |-> t.at,
                                dispatch |-> t.dispatch])
                   ELSE alertLog
    /\ ticks' = ticks + 1
    /\ UNCHANGED <<webhook, data, statusResult, burnRateResult>>
    /\ UNCHANGED storeVars
    /\ UNCHANGED taskVars

Record(t) ==
    /\ now' = t.at
    /\ tick' = t
    /\ slo' = IF Fired(t)
              THEN [slo EXCEPT !.lastBurnAlertState =
                                   AlertState(t.decision.severity, t.at)]
              ELSE slo
    /\ alertLog' = IF Fired(t)
                   THEN Append(alertLog,
                               [severity |-> t.decision.severity, timestamp |-> t.at,
                                dispatch |-> t.dispatch])
                   ELSE alertLog
    /\ ticks' = ticks + 1
    /\ UNCHANGED <<webhook, data, statusResult, burnRateResult>>
    /\ UNCHANGED storeVars
    /\ UNCHANGED taskVars

Tick ==
    /\ ticks < MaxTicks
    /\ \E period \in TickPeriods :
          \/ LET t == Evaluate(slo, webhook, now + period, FALSE,
                                [numerator |-> 0, denominator |-> 0], TRUE)
             IN  Record(t)
          \/ \E sums \in TickSums :
                \E delivered \in Deliveries(slo, webhook, now + period, sums) :
                   LET t == Evaluate(slo, webhook, now + period, TRUE, sums, delivered)
                   IN  Record(t)

-----------------------------------------------------------------------------
(* One scheduler tick over several SLOs *)

\* sendSLOBurnAlert: handleSendGenericWebhook resolves, or rejects and the catch
\* logs and rethrows
sendSLOBurnAlert(delivered) == IF delivered THEN "returned" ELSE "threw"

\* The evaluation of one SLO inside the tick.  getSLOStatus is called as is, so
\* whatever it throws leaves the loop; a null result is "no status available";
\* a throw of sendSLOBurnAlert is caught and reported.
EvaluateInTick(doc, hook, at, storageOk, sums, delivered) ==
    LET result == getSLOStatus(TRUE, storageOk,
                               <<[timestamp |-> 0,
                                  numerator_count |-> sums.numerator,
                                  denominator_count |-> sums.denominator]>>, doc)
    IN  IF result.kind = "threw" THEN [kind |-> "threw"]
        ELSE IF result.kind # "status"
        THEN [kind |-> "unavailable", at |-> at, prior |-> doc.lastBurnAlertState]
        ELSE LET decision == checkSLOBurnAlerts(doc, result.burnRate, hook, at)
             IN  [kind |-> "evaluated", at |-> at, prior |-> doc.lastBurnAlertState,
                  status |-> result, decision |-> decision,
                  dispatch |-> IF ~decision.shouldAlert THEN "none"
                               ELSE IF sendSLOBurnAlert(delivered) = "returned"
                               THEN "sent" ELSE "failed"]

\* The loop body: the next SLO of the tick is evaluated and its alert state written
EvaluateNextSLO ==
    /\ batch.kind = "tick"
    /\ ~batch.aborted
    /\ Len(batch.done) < Len(batch.docs)
    /\ \E storageOk \in BOOLEAN, sums \in TickSums, delivered \in BOOLEAN :
          LET i == Len(batch.done) + 1
              t == EvaluateInTick(batch.docs[i], webhook, now, storageOk, sums, delivered)
          IN  batch' = IF t.kind = "threw"
                       THEN [batch EXCEPT !.aborted = TRUE]
                       ELSE [batch EXCEPT
                                !.done = Append(@, t),
                                !.docs[i].lastBurnAlertState =
                                    IF Fired(t) THEN AlertState(t.decision.severity, t.at)
                                    ELSE @]
    /\ UNCHANGED <<slo, webhook, now, data, statusResult, burnRateResult, tick,
                   alertLog, ticks, aggregates, rawEvents, call>>
    /\ UNCHANGED taskVars

-----------------------------------------------------------------------------
(* Reads on demand *)

GetSLOStatus ==
    /\ statusResult = NoResult
    /\ \E found \in BOOLEAN, storageOk \in BOOLEAN :
          statusResult' = getSLOStatus(found, storageOk, data, slo)
    /\ UNCHANGED <<slo, webhook, now, data, burnRateResult, tick, alertLog, ticks>>
    /\ UNCHANGED storeVars
    /\ UNCHANGED taskVars

GetSLOBurnRate ==
    /\ burnRateResult = NoResult
    /\ \E found \in BOOLEAN, storageOk \in BOOLEAN :
          burnRateResult' = getSLOBurnRate(found, storageOk, data, slo)
    /\ UNCHANGED <<slo, webhook, now, data, statusResult, tick, alertLog, ticks>>
    /\ UNCHANGED storeVars
    /\ UNCHANGED taskVars

\* A ClickHouse query answers or fails; nothing is asked when the SLO is not found
StorageOutcomes(found) == IF found THEN BOOLEAN ELSE {TRUE}

SloIds == {"slo1", "slo2"}

TeamIds == {"teamA", "teamB"}

\* timeStart and timeEnd of a series request, on and off a whole second
RangeStarts == {500, 1000}

RangeEnds == {1500, 2000}

\* Mutant: serving a status clears the alert state of the document
GetSLOStatusRequestClearingAlertState ==
    /\ call = NoCall
    /\ \E sloId \in SloIds, teamId \in TeamIds, realtime \in BOOLEAN :
          \E storageOk \in StorageOutcomes(FindOne(slo, sloId, teamId)) :
             LET out == getSLOStatusCall(slo, aggregates, rawEvents, sloId, teamId,
                                         realtime, storageOk, now)
             IN  call' = [op |-> "getSLOStatus", sloId |-> sloId, teamId |-> teamId,
                          realtime |-> realtime, storageOk |-> storageOk,
                          timeStart |-> now - ms(slo.timeWindow), timeEnd |-> now,
                          result |-> out.result, queries |-> out.queries]
    /\ slo' = [slo EXCEPT !.lastBurnAlertState = NoAlertState]
    /\ UNCHANGED <<webhook, now, data, statusResult, burnRateResult, tick,
                   alertLog, ticks, aggregates, rawEvents, batch>>
    /\ UNCHANGED taskVars

GetSLOStatusRequest ==
    /\ call = NoCall
    /\ \E sloId \in SloIds, teamId \in TeamIds, realtime \in BOOLEAN :
          \E storageOk \in StorageOutcomes(FindOne(slo, sloId, teamId)) :
             LET out == getSLOStatusCall(slo, aggregates, rawEvents, sloId, teamId,
                                         realtime, storageOk, now)
             IN  call' = [op |-> "getSLOStatus", sloId |-> sloId, teamId |-> teamId,
                          realtime |-> realtime, storageOk |-> storageOk,
                          timeStart |-> now - ms(slo.timeWindow), timeEnd |-> now,
                          result |-> out.result, queries |-> out.queries]
    /\ UNCHANGED <<slo, webhook, now, data, statusResult, burnRateResult, tick,
                   alertLog, ticks, aggregates, rawEvents, batch>>
    /\ UNCHANGED taskVars

GetSLOBurnRateRequest ==
    /\ call = NoCall
    /\ \E sloId \in SloIds, teamId \in TeamIds :
          \E timeStart \in RangeStarts, timeEnd \in RangeEnds :
             \E storageOk \in StorageOutcomes(FindOne(slo, sloId, teamId)) :
                LET out == getSLOBurnRateCall(slo, aggregates, sloId, teamId,
                                              timeStart, timeEnd, storageOk)
                IN  call' = [op |-> "getSLOBurnRate", sloId |-> sloId, teamId |-> teamId,
                             realtime |-> FALSE, storageOk |-> storageOk,
                             timeStart |-> timeStart, timeEnd |-> timeEnd,
                             result |-> out.result, queries |-> out.queries]
    /\ UNCHANGED <<slo, webhook, now, data, statusResult, burnRateResult, tick,
                   alertLog, ticks, aggregates, rawEvents, batch>>
    /\ UNCHANGED taskVars

-----------------------------------------------------------------------------
(* Specifications *)

ThresholdRates == {Whole(1), Whole(2)}

Thresholds == [burnRate : ThresholdRates, severity : Severities]

\* burnAlerts as the forms write it: absent when created with alerts off, enabled
\* with the thresholds of the form, or disabled; a disabled document keeps at most
\* one threshold here.
BurnAlertConfigs ==
    {NoBurnAlerts}
    \cup {[present |-> TRUE, enabled |-> TRUE, thresholds |-> th] :
             th \in SeqsUpTo(Thresholds, MaxThresholds)}
    \cup {[present |-> TRUE, enabled |-> FALSE, thresholds |-> th] :
             th \in SeqsUpTo(Thresholds, 1)}

AlertStates == {NoAlertState} \cup {AlertState(s, 0) : s \in Severities}

\* The scheduler evaluating one SLO tick after tick
Init ==
    /\ slo \in [targetValue : {Whole(90), Whole(100)}, timeWindow : {"1h"},
                burnAlerts : BurnAlertConfigs, lastBurnAlertState : AlertStates]
    /\ webhook \in BOOLEAN
    /\ now = 0
    /\ data = <<>>
    /\ statusResult = NoResult
    /\ burnRateResult = NoResult
    /\ tick = NoTick
    /\ alertLog = IF slo.lastBurnAlertState.present
                  THEN <<[severity |-> slo.lastBurnAlertState.severity,
                          timestamp |-> slo.lastBurnAlertState.timestamp,
                          dispatch |-> "sent"]>>
                  ELSE <<>>
    /\ ticks = 0
    /\ aggregates = {}
    /\ rawEvents = {}
    /\ call = NoCall
    /\ batch = NoBatch
    /\ workers = NoWorkers
    /\ cloud = NoCloud
    /\ readiness = NoReadiness

Next == Tick

Spec == Init /\ [][Next]_vars

\* The two read paths applied to every answer of the aggregate store
InitStatus ==
    /\ slo \in [targetValue : TargetValues, timeWindow : TimeWindows,
                burnAlerts : {NoBurnAlerts}, lastBurnAlertState : {NoAlertState}]
    /\ webhook = FALSE
    /\ now = 0
    /\ data \in {WithTimestamps(c) : c \in SeqsUpTo(BucketCounts, MaxBuckets)}
    /\ statusResult = NoResult
    /\ burnRateResult = NoResult
    /\ tick = NoTick
    /\ alertLog = <<>>
    /\ ticks = 0
    /\ aggregates = {}
    /\ rawEvents = {}
    /\ call = NoCall
    /\ batch = NoBatch
    /\ workers = NoWorkers
    /\ cloud = NoCloud
    /\ readiness = NoReadiness

NextStatus == GetSLOStatus \/ GetSLOBurnRate

SpecStatus == InitStatus /\ [][NextStatus]_vars

\* SLI definition of the document: builder mode (filter and goodCondition), a
\* filter alone, or raw mode (neither)
SliModes == {[filter |-> TRUE, goodCondition |-> TRUE],
             [filter |-> TRUE, goodCondition |-> FALSE],
             [filter |-> FALSE, goodCondition |-> FALSE]}

\* Bucket timestamps of the stored rows: whole seconds, all in the past
RowTimestamps == {0, 1000, 2000}

RowCounts == {[numerator_count |-> 1, denominator_count |-> 1],
              [numerator_count |-> 1, denominator_count |-> 2]}

AggregateRows ==
    {[slo_id |-> s, timestamp |-> t,
      numerator_count |-> c.numerator_count, denominator_count |-> c.denominator_count] :
        s \in SloIds, t \in RowTimestamps, c \in RowCounts}

\* Events of the source table inside the window: a good and a bad one matching the filter
RawEventTables ==
    SUBSET {[timestamp |-> 2000, matchesFilter |-> TRUE, good |-> TRUE],
            [timestamp |-> 2000, matchesFilter |-> TRUE, good |-> FALSE]}

\* Date.now() of a read, on and off a whole second; the one-hour window starts
\* at 1000 and at 1500
ReadClock == {ms("1h") + 1000, ms("1h") + 1500}

\* The read paths served against the tables
InitReads ==
    /\ slo \in {[id |-> "slo1", team |-> "teamA",
                  filter |-> m.filter, goodCondition |-> m.goodCondition,
                  targetValue |-> Whole(90), timeWindow |-> "1h",
                  burnAlerts |-> NoBurnAlerts, lastBurnAlertState |-> last] :
                    m \in SliModes, last \in {NoAlertState, AlertState("warning", 0)}}
    /\ webhook = FALSE
    /\ now \in ReadClock
    /\ data = <<>>
    /\ statusResult = NoResult
    /\ burnRateResult = NoResult
    /\ tick = NoTick
    /\ alertLog = <<>>
    /\ ticks = 0
    /\ aggregates \in {T \in SUBSET AggregateRows : Cardinality(T) <= MaxRows}
    /\ rawEvents \in RawEventTables
    /\ call = NoCall
    /\ batch = NoBatch
    /\ workers = NoWorkers
    /\ cloud = NoCloud
    /\ readiness = NoReadiness

NextReads == GetSLOStatusRequest \/ GetSLOBurnRateRequest

SpecReads == InitReads /\ [][NextReads]_vars

\* The SLOs of a tick: with a warning threshold at burn rate 1, or without alerts
BatchDocs ==
    {[targetValue |-> Whole(90), timeWindow |-> "1h", burnAlerts |-> b,
      lastBurnAlertState |-> NoAlertState] :
        b \in {NoBurnAlerts,
               [present |-> TRUE, enabled |-> TRUE,
                thresholds |-> <<[burnRate |-> Whole(1), severity |-> "warning"]>>]}}

\* One tick of the scheduler over MaxSlos SLOs
InitBatch ==
    /\ batch \in {[kind |-> "tick", docs |-> d, done |-> <<>>, aborted |-> FALSE] :
                     d \in [1..MaxSlos -> BatchDocs]}
    /\ slo = batch.docs[1]
    /\ webhook = TRUE
    /\ now = OneHourMs
    /\ data = <<>>
    /\ statusResult = NoResult
    /\ burnRateResult = NoResult
    /\ tick = NoTick
    /\ alertLog = <<>>
    /\ ticks = 0
    /\ aggregates = {}
    /\ rawEvents = {}
    /\ call = NoCall
    /\ workers = NoWorkers
    /\ cloud = NoCloud
    /\ readiness = NoReadiness

NextBatch == EvaluateNextSLO

SpecBatch == InitBatch /\ [][NextBatch]_vars

-----------------------------------------------------------------------------
(* Properties of the status evaluator and the series builder (SpecStatus) *)

\* getSLOStatus returned a status computed from a window with events
Computed == statusResult.kind = "status" /\ statusResult.denominator > 0

\* x = p / q, for integers p and q > 0, without the model's own arithmetic
EqualsRatio(x, p, q) == IsFinite(x) /\ x.num * q = p * x.den

\* 100 * n / d >= t, in integers
MeetsTarget(n, d, t) == 100 * n * t.den >= t.num * d

C2_NoData ==
    (statusResult.kind = "status" /\ SumNumerator(data) = 0 /\ SumDenominator(data) = 0)
        => /\ statusResult.status = HEALTHY
           /\ statusResult.achieved = Whole(100)
           /\ statusResult.errorBudgetRemaining = Whole(100)
           /\ statusResult.target = slo.targetValue
           /\ "burnRate" \notin DOMAIN statusResult

\* C2 witness: an empty window under a 100% target, where the error budget is zero
C2_Witness ==
    /\ statusResult.kind = "status"
    /\ Len(data) > 0
    /\ SumNumerator(data) = 0 /\ SumDenominator(data) = 0
    /\ slo.targetValue = Whole(100)
    /\ statusResult.errorBudgetRemaining = Whole(100)

\* C3: with denominator > 0 the status is HEALTHY when achieved >= target,
\* otherwise AT_RISK when 0 < errorBudgetRemaining% <= 10, otherwise BREACHED; in
\* particular errorBudgetRemaining% = 0 with achieved < target is BREACHED.
C3_StatusPrecedence ==
    Computed =>
        LET a == statusResult.achieved
            r == statusResult.errorBudgetRemaining
        IN  /\ statusResult.status =
                   IF NumGE(a, slo.targetValue) THEN HEALTHY
                   ELSE IF NumGT(r, Whole(0)) /\ NumLE(r, Whole(10)) THEN AT_RISK
                   ELSE BREACHED
            /\ (r = Whole(0) /\ NumLT(a, slo.targetValue))
                   => statusResult.status = BREACHED

\* C3 witness: a missed target with an exhausted budget is BREACHED
C3_Witness ==
    /\ Computed
    /\ NumLT(statusResult.achieved, slo.targetValue)
    /\ statusResult.errorBudgetRemaining = Whole(0)
    /\ statusResult.status = BREACHED

\* burnRate of (n, d, t) with d > 0 as the claim states it: (1 - n/d) / (1 - t/100)
\* when t < 100; at t = 100, 0 when n = d and +infinity when n < d.
BurnRateAsStated(b, n, d, t) ==
    /\ NumLT(t, Whole(100)) =>
           EqualsRatio(b, (d - n) * 100 * t.den, d * (100 * t.den - t.num))
    /\ (t = Whole(100) /\ n = d) => b = Whole(0)
    /\ (t = Whole(100) /\ n < d) => b = Infinity

OtherSums == 0..(MaxBuckets * MaxCount + 1)

\* C10: for a fixed denominator > 0 and a fixed target, achieved is non-decreasing
\* as numerator increases, and burnRate is non-increasing as achieved increases.
C10_Monotone ==
    Computed =>
        \A n2 \in OtherSums :
            LET achieved2 == Achieved(n2, statusResult.denominator)
            IN  /\ n2 >= statusResult.numerator =>
                       NumGE(achieved2, statusResult.achieved)
                /\ NumGE(achieved2, statusResult.achieved) =>
                       NumLE(BurnRate(n2, statusResult.denominator, slo.targetValue),
                             statusResult.burnRate)

\* C10 witness: a window with errors under a target below 100, so that a larger
\* numerator gives a strictly larger achieved and a strictly smaller burn rate
C10_Witness ==
    /\ Computed
    /\ statusResult.numerator < statusResult.denominator
    /\ NumLT(slo.targetValue, Whole(100))
    /\ NumLT(statusResult.achieved,
             Achieved(statusResult.numerator + 1, statusResult.denominator))
    /\ NumLT(BurnRate(statusResult.numerator + 1, statusResult.denominator,
                      slo.targetValue),
             statusResult.burnRate)

-----------------------------------------------------------------------------
(* Properties of the alert evaluator (Spec) *)

Evaluated == tick.kind = "evaluated"

\* burnAlerts enabled with a threshold, and a webhook resolved
AlertsOn ==
    /\ slo.burnAlerts.present
    /\ slo.burnAlerts.enabled
    /\ Len(slo.burnAlerts.thresholds) > 0
    /\ webhook

\* The configured thresholds at or below the burn rate b
Exceeded(b) ==
    {th \in {slo.burnAlerts.thresholds[i] : i \in 1..Len(slo.burnAlerts.thresholds)} :
        NumLE(th.burnRate, b)}

\* Those of them with the greatest burnRate
HighestExceeded(b) ==
    {th \in Exceeded(b) : \A other \in Exceeded(b) : NumLE(other.burnRate, th.burnRate)}

\* The de-duplication rule: no prior alert, another severity, or more than an hour ago
MayAlert(prior, severity, at) ==
    \/ ~prior.present
    \/ prior.severity # severity
    \/ at - prior.timestamp > OneHourMs

\* C5: with burn alerts enabled, a channel and a matching threshold,
\* checkSLOBurnAlerts returns shouldAlert = true if and only if
\* lastBurnAlertState is absent, or its severity differs from the matched
\* threshold's, or its timestamp is more than one hour before now: a prior alert
\* of the same severity 30 minutes old suppresses, one 90 minutes old does not,
\* and one of another severity never does.
C5_Hysteresis ==
    (Evaluated /\ AlertsOn /\ Exceeded(tick.status.burnRate) # {}) =>
        LET matched == Candidate(slo.burnAlerts.thresholds, tick.status.burnRate)
        IN  /\ matched \in HighestExceeded(tick.status.burnRate)
            /\ tick.decision.shouldAlert <=> MayAlert(tick.prior, matched.severity, tick.at)
            /\ (tick.prior.present /\ tick.prior.severity = matched.severity
                  /\ tick.at - tick.prior.timestamp = 30 * 60 * 1000)
                   => ~tick.decision.shouldAlert
            /\ (tick.prior.present /\ tick.prior.severity = matched.severity
                  /\ tick.at - tick.prior.timestamp = 90 * 60 * 1000)
                   => tick.decision.shouldAlert
            /\ (tick.prior.present /\ tick.prior.severity # matched.severity)
                   => tick.decision.shouldAlert

\* C5 witness: a threshold is matched 30 minutes after an alert of its severity,
\* and no alert is returned
C5_Witness ==
    /\ Evaluated /\ AlertsOn
    /\ Exceeded(tick.status.burnRate) # {}
    /\ tick.prior.present
    /\ tick.prior.severity =
           Candidate(slo.burnAlerts.thresholds, tick.status.burnRate).severity
    /\ tick.at - tick.prior.timestamp = 30 * 60 * 1000
    /\ ~tick.decision.shouldAlert

\* C6: the candidate of checkSLOBurnAlerts is a configured threshold of greatest
\* burnRate among those with burnRate <= the current burn rate (inclusive), an
\* alert it returns carries that threshold's severity, and when no threshold is
\* <= the current burn rate it returns shouldAlert = false.
C6_ThresholdSelection ==
    (Evaluated /\ AlertsOn) =>
        LET b == tick.status.burnRate
            matched == Candidate(slo.burnAlerts.thresholds, b)
        IN  /\ Exceeded(b) = {} => (matched = NoThreshold /\ tick.decision = NoAlert)
            /\ Exceeded(b) # {} => matched \in HighestExceeded(b)
            /\ tick.decision.shouldAlert =>
                   /\ Exceeded(b) # {}
                   /\ tick.decision.severity = matched.severity

\* C6 witness: burn rate 2 with thresholds 1 (warning) and 2 (critical) alerts critical
C6_Witness ==
    /\ Evaluated /\ AlertsOn
    /\ tick.status.burnRate = Whole(2)
    /\ Exceeded(Whole(2)) = {[burnRate |-> Whole(1), severity |-> "warning"],
                             [burnRate |-> Whole(2), severity |-> "critical"]}
    /\ tick.decision = [shouldAlert |-> TRUE, severity |-> "critical"]

\* C7: checkSLOBurnAlerts returns shouldAlert = false whenever burnAlerts is
\* absent or disabled, or its thresholds list is empty, or no webhook is
\* resolved, whatever the burn rate and the prior alert state.
C7_Preconditions ==
    (Evaluated /\ ~AlertsOn) =>
        /\ tick.decision = NoAlert
        /\ tick.dispatch = "none"
        /\ slo.lastBurnAlertState = tick.prior

\* C7 witness: disabled burn alerts with a webhook, a threshold below the burn
\* rate and a prior alert of another severity
C7_Witness ==
    /\ Evaluated
    /\ slo.burnAlerts.present /\ ~slo.burnAlerts.enabled /\ webhook
    /\ Exceeded(tick.status.burnRate) # {}
    /\ tick.prior.present
    /\ \E th \in Exceeded(tick.status.burnRate) : th.severity # tick.prior.severity
    /\ tick.decision = NoAlert

\* C8: over the ticks of one SLO, each fired alert setting lastBurnAlertState =
\* {severity, now}, two alerts of the same severity with no alert of another
\* severity between them are more than one hour apart, and a tick whose matched
\* severity differs from the stored severity fires at that tick.
C8_NoStormButEscalation ==
    /\ \A i \in 1..(Len(alertLog) - 1) :
          alertLog[i].severity = alertLog[i + 1].severity =>
              alertLog[i + 1].timestamp - alertLog[i].timestamp > OneHourMs
    /\ slo.lastBurnAlertState.present =>
          /\ alertLog # <<>>
          /\ alertLog[Len(alertLog)].severity = slo.lastBurnAlertState.severity
          /\ alertLog[Len(alertLog)].timestamp = slo.lastBurnAlertState.timestamp
    /\ (Evaluated /\ AlertsOn /\ Exceeded(tick.status.burnRate) # {}
          /\ tick.prior.present
          /\ Candidate(slo.burnAlerts.thresholds, tick.status.burnRate).severity
                 # tick.prior.severity)
          => /\ tick.decision.shouldAlert
             /\ slo.lastBurnAlertState =
                    AlertState(Candidate(slo.burnAlerts.thresholds,
                                         tick.status.burnRate).severity, tick.at)

\* C8 witness: two ticks an hour apart after a warning: the first, exactly one hour
\* after it, fires nothing, and the second repeats the warning two hours after it
C8_Witness ==
    /\ ticks = 2
    /\ Evaluated /\ AlertsOn
    /\ Len(alertLog) = 2
    /\ alertLog[1].severity = "warning"
    /\ alertLog[2].severity = "warning"
    /\ alertLog[2].timestamp - alertLog[1].timestamp = 2 * OneHourMs
    /\ tick.decision = [shouldAlert |-> TRUE, severity |-> "warning"]
    /\ tick.prior = AlertState("warning", 0)

-----------------------------------------------------------------------------
(* The series against the status of one bucket (SpecStatus) *)

\* What getSLOStatus returns when its window holds the i-th bucket alone
StatusOfBucket(i) == getSLOStatus(TRUE, TRUE, <<data[i]>>, slo)

EmptyBucket(i) == data[i].numerator_count = 0 /\ data[i].denominator_count = 0

\* C16 as stated: for every bucket, the one with numerator and denominator 0
\* included, the point's achieved and burnRate equal the achieved and burnRate
\* getSLOStatus produces from that bucket's numerator and denominator.
C16_PointEqualsStatusOfBucket ==
    burnRateResult.kind = "series" =>
        \A i \in 1..Len(data) :
           /\ burnRateResult.points[i].achieved = StatusOfBucket(i).achieved
           /\ "burnRate" \in DOMAIN StatusOfBucket(i)
           /\ burnRateResult.points[i].burnRate = StatusOfBucket(i).burnRate

\* C16: for every bucket the point's achieved equals the achieved getSLOStatus
\* produces from that bucket's numerator and denominator; the burnRate equals it
\* too unless numerator and denominator are both 0, where the point has
\* burnRate 0 and the status result has no burnRate.
C16_PointEqualsStatusOfNonEmptyBucket ==
    burnRateResult.kind = "series" =>
        \A i \in 1..Len(data) :
           /\ burnRateResult.points[i].achieved = StatusOfBucket(i).achieved
           /\ ~EmptyBucket(i) =>
                  /\ "burnRate" \in DOMAIN StatusOfBucket(i)
                  /\ burnRateResult.points[i].burnRate = StatusOfBucket(i).burnRate
           /\ EmptyBucket(i) =>
                  /\ "burnRate" \notin DOMAIN StatusOfBucket(i)
                  /\ burnRateResult.points[i].burnRate = Whole(0)

\* C16 witness: a series over an empty bucket and a bucket with one error in two
\* events, against a target below 100
C16_Witness ==
    /\ burnRateResult.kind = "series"
    /\ Len(data) = 2
    /\ EmptyBucket(1)
    /\ data[2].numerator_count = 1 /\ data[2].denominator_count = 2
    /\ slo.targetValue = Whole(90)
    /\ burnRateResult.points[2].burnRate = Whole(5)

-----------------------------------------------------------------------------
(* Properties of the read paths against the tables (SpecReads) *)

\* The request names the stored SLO and its team
Resolves == call.op # "none" /\ call.sloId = slo.id /\ call.teamId = slo.team

\* getSLOStatus answered from default.slo_aggregates
StatusFromAggregates ==
    /\ call.op = "getSLOStatus"
    /\ call.result.kind = "status"
    /\ ~(call.realtime /\ slo.filter /\ slo.goodCondition)

C12_NotFound ==
    [][(call'.op # "none" /\ call' # call
          /\ (call'.sloId # slo.id \/ call'.teamId # slo.team))
       => /\ call'.op = "getSLOStatus" => call'.result = NullResult
          /\ call'.op = "getSLOBurnRate" =>
                 /\ call'.result.kind = "error"
                 /\ call'.result.message = "SLO not found"
          /\ call'.queries = 0
          /\ UNCHANGED <<slo, aggregates, rawEvents, webhook, now, alertLog>>]_vars

\* C12 witness: the series of a stored SLO with rows in range asked by another team
C12_Witness ==
    /\ call.op = "getSLOBurnRate"
    /\ call.sloId = slo.id
    /\ call.teamId # slo.team
    /\ BurnRateRows(aggregates, call.sloId, call.timeStart, call.timeEnd) # {}
    /\ call.result.message = "SLO not found"
    /\ call.queries = 0

\* C13: when the storage read fails during getSLOStatus, the call does not throw
\* and returns an explicit 'unavailable' outcome: not a status result, and not the
\* outcome returned for an SLO that does not exist.
C13_UnavailableIsExplicit ==
    (call.op = "getSLOStatus" /\ Resolves /\ ~call.storageOk) =>
        /\ call.result.kind \notin {"status", "threw"}
        /\ call.result # getSLOStatus(FALSE, TRUE, <<>>, slo)

\* C14: getSLOStatus with realtime = true on an SLO that is not in builder mode
\* (filter or goodCondition absent) is rejected before any storage access and
\* produces no status result.
C14_RealtimeNeedsBuilder ==
    (call.op = "getSLOStatus" /\ Resolves /\ call.realtime
        /\ ~(slo.filter /\ slo.goodCondition)) =>
        /\ call.queries = 0
        /\ call.result.kind # "status"

\* The bucket timestamps of the SLO's rows with timeStart <= timestamp <= timeEnd
BucketsInRange ==
    {r.timestamp : r \in {x \in aggregates : /\ x.slo_id = call.sloId
                                             /\ call.timeStart <= x.timestamp
                                             /\ x.timestamp <= call.timeEnd}}

\* C15: getSLOBurnRate returns exactly one point per distinct bucket timestamp of
\* the SLO's rows with timeStart <= timestamp <= timeEnd, in strictly ascending
\* order, and no point outside the range or of another SLO.
C15_OnePointPerBucketInRange ==
    (call.op = "getSLOBurnRate" /\ call.result.kind = "series") =>
        LET points == call.result.points
        IN  /\ {points[i].timestamp : i \in 1..Len(points)} = BucketsInRange
            /\ Len(points) = Cardinality(BucketsInRange)
            /\ \A i \in 1..(Len(points) - 1) :
                   points[i].timestamp < points[i + 1].timestamp

\* C17: getSLOStatus, in both modes, and getSLOBurnRate leave lastBurnAlertState,
\* the rest of the SLO document and every aggregate row as they were, whatever
\* the outcome.
C17_ReadsChangeNothing ==
    [][call' # call =>
          /\ slo' = slo
          /\ aggregates' = aggregates
          /\ rawEvents' = rawEvents]_vars

\* C17 witness: a realtime status of a builder-mode SLO that holds an alert state
\* and has aggregate rows, computed from the two raw events
C17_Witness ==
    /\ call.op = "getSLOStatus"
    /\ Resolves
    /\ call.realtime /\ slo.filter /\ slo.goodCondition
    /\ call.result.kind = "status"
    /\ call.result.denominator = 2
    /\ slo.lastBurnAlertState.present
    /\ aggregates # {}

-----------------------------------------------------------------------------
(* Properties of the alert pipeline, continued (Spec) *)

ConfiguredThresholds ==
    {slo.burnAlerts.thresholds[i] : i \in 1..Len(slo.burnAlerts.thresholds)}

\* C18: when the burn rate is below every configured threshold, the evaluation
\* returns no alert, nothing is dispatched and lastBurnAlertState stays as it was.
C18_BelowEveryThreshold ==
    (Evaluated /\ ConfiguredThresholds # {}
        /\ \A th \in ConfiguredThresholds : NumLT(tick.status.burnRate, th.burnRate))
    => /\ tick.decision = NoAlert
       /\ tick.dispatch = "none"
       /\ slo.lastBurnAlertState = tick.prior

\* C18 witness: after a warning, the burn rate is back at 1 under thresholds of 2
\* with alerts on: nothing is sent and the warning state stays
C18_Witness ==
    /\ Evaluated /\ AlertsOn
    /\ tick.prior = AlertState("warning", 0)
    /\ tick.status.burnRate = Whole(1)
    /\ \A th \in ConfiguredThresholds : th.burnRate = Whole(2)
    /\ tick.dispatch = "none"
    /\ slo.lastBurnAlertState = AlertState("warning", 0)

\* C20: when checkSLOBurnAlerts decides to alert and the dispatch fails,
\* lastBurnAlertState is still set to {severity, now}; a tick within the following
\* hour that reaches a threshold of the same severity does not alert again.
C20_FailedDispatchCounts ==
    [][ticks' = ticks + 1 =>
          /\ (tick'.kind = "evaluated" /\ tick'.dispatch = "failed") =>
                 slo'.lastBurnAlertState = AlertState(tick'.decision.severity, tick'.at)
          /\ (tick.kind = "evaluated" /\ tick.dispatch = "failed"
                 /\ tick'.kind = "evaluated"
                 /\ tick'.at - tick.at <= OneHourMs
                 /\ Candidate(slo.burnAlerts.thresholds, tick'.status.burnRate).severity
                        = tick.decision.severity)
              => /\ ~tick'.decision.shouldAlert
                 /\ slo'.lastBurnAlertState = slo.lastBurnAlertState]_vars

\* C20 witness: a critical alert whose dispatch failed, and one hour later a tick
\* at the critical threshold again, which sends nothing
C20_Witness ==
    /\ ticks = 2
    /\ Evaluated /\ AlertsOn
    /\ Len(alertLog) >= 1
    /\ alertLog[Len(alertLog)].dispatch = "failed"
    /\ alertLog[Len(alertLog)].severity = "critical"
    /\ tick.at - alertLog[Len(alertLog)].timestamp = OneHourMs
    /\ tick.prior = AlertState("critical", alertLog[Len(alertLog)].timestamp)
    /\ Candidate(slo.burnAlerts.thresholds, tick.status.burnRate).severity = "critical"
    /\ tick.dispatch = "none"
    /\ slo.lastBurnAlertState = tick.prior

-----------------------------------------------------------------------------
(* Isolation of the SLOs of one tick (SpecBatch) *)

\* What the evaluation of one SLO on its own can come to
StandaloneEvaluations(doc) ==
    {Evaluate(doc, webhook, now, storageOk, sums, delivered) :
        storageOk \in BOOLEAN, sums \in TickSums, delivered \in BOOLEAN}

-----------------------------------------------------------------------------
(* The order of the configured thresholds (Spec) *)

\* The orderings of a sequence
Orderings(seq) ==
    {[i \in 1..Len(seq) |-> seq[p[i]]] :
        p \in {q \in [1..Len(seq) -> 1..Len(seq)] :
                  \A i, j \in 1..Len(seq) : q[i] = q[j] => i = j}}

\* C22: the result of checkSLOBurnAlerts, shouldAlert and severity, is the same
\* for every ordering of the same configured thresholds, two thresholds of equal
\* burnRate and different severities included.
C22_OrderIndependent ==
    (Evaluated /\ AlertsOn) =>
        \A th \in Orderings(slo.burnAlerts.thresholds) :
           checkSLOBurnAlerts([slo EXCEPT !.burnAlerts.thresholds = th,
                                          !.lastBurnAlertState = tick.prior],
                              tick.status.burnRate, webhook, tick.at)
               = tick.decision

\* C25: among the configured thresholds with burnRate <= the current burn rate the
\* candidate is the most severe one: when a matching threshold is critical, the
\* candidate's severity is critical.
C25_MostSevereMatch ==
    (Evaluated /\ AlertsOn
        /\ \E th \in Exceeded(tick.status.burnRate) : th.severity = "critical")
    => Candidate(slo.burnAlerts.thresholds, tick.status.burnRate).severity = "critical"

-----------------------------------------------------------------------------
(* The error budget and the status, continued (SpecStatus) *)

\* C27: for every input with denominator > 0 and achieved < target, getSLOStatus
\* computes errorBudgetRemaining 0 and the status BREACHED; no input makes it
\* return AT_RISK.
C27_NeverAtRisk ==
    /\ statusResult.kind = "status" => statusResult.status # AT_RISK
    /\ (Computed /\ ~MeetsTarget(statusResult.numerator, statusResult.denominator,
                                  slo.targetValue))
       => /\ statusResult.errorBudgetRemaining = Whole(0)
          /\ statusResult.status = BREACHED

\* C27 witness: 1 good event out of 2, achieved 50 against a target of 90
C27_Witness ==
    /\ Computed
    /\ statusResult.numerator = 1 /\ statusResult.denominator = 2
    /\ slo.targetValue = Whole(90)
    /\ statusResult.errorBudgetRemaining = Whole(0)
    /\ statusResult.status = BREACHED

-----------------------------------------------------------------------------
(* The window of the aggregated status (SpecReads) *)

\* The rows of the requested SLO with bucket timestamp >= windowStart = now - timeWindow
RowsOfWindow ==
    {r \in aggregates : r.slo_id = call.sloId /\ r.timestamp >= now - ms(slo.timeWindow)}

\* C23: in aggregated mode getSLOStatus takes as numerator and denominator the
\* sums of numerator_count and denominator_count over exactly the rows of that
\* SLO with bucket timestamp >= windowStart = now - timeWindow; rows of other
\* SLOs and rows older than windowStart never contribute.
C23_WindowSums ==
    StatusFromAggregates =>
        /\ call.result.numerator = SumNumerator(SeqOfSet(RowsOfWindow))
        /\ call.result.denominator = SumDenominator(SeqOfSet(RowsOfWindow))

-----------------------------------------------------------------------------
(* A breach, a recovery and a new breach within the hour (SpecRecovery) *)

\* Tick periods short enough for two ticks within the hour after an alert
RecoveryPeriods == {20 * 60 * 1000, 40 * 60 * 1000}

\* The evaluation t found the burn rate below every configured threshold
Recovered(t) ==
    /\ t.kind = "evaluated"
    /\ Candidate(slo.burnAlerts.thresholds, t.status.burnRate) = NoThreshold

\* A tick of the scheduler; the record of the tick also says whether the tick
\* before it had found the SLO recovered
TickSoon ==
    /\ ticks < MaxTicks
    /\ \E period \in RecoveryPeriods, storageOk \in BOOLEAN, sums \in TickSums :
          \E delivered \in Deliveries(slo, webhook, now + period, sums) :
             LET t == Evaluate(slo, webhook, now + period, storageOk, sums, delivered)
             IN  Record(t @@ [afterRecovery |-> Recovered(tick)])

\* An SLO with burn alerts on, evaluated tick after tick, that may have alerted at
\* time 0
InitRecovery ==
    /\ slo \in [targetValue : {Whole(90)}, timeWindow : {"1h"},
                burnAlerts : {[present |-> TRUE, enabled |-> TRUE, thresholds |-> th] :
                                 th \in SeqsUpTo(Thresholds, MaxThresholds) \ {<<>>}},
                lastBurnAlertState : AlertStates]
    /\ webhook = TRUE
    /\ now = 0
    /\ data = <<>>
    /\ statusResult = NoResult
    /\ burnRateResult = NoResult
    /\ tick = NoTick
    /\ alertLog = IF slo.lastBurnAlertState.present
                  THEN <<[severity |-> slo.lastBurnAlertState.severity,
                          timestamp |-> slo.lastBurnAlertState.timestamp,
                          dispatch |-> "sent"]>>
                  ELSE <<>>
    /\ ticks = 0
    /\ aggregates = {}
    /\ rawEvents = {}
    /\ call = NoCall
    /\ batch = NoBatch
    /\ workers = NoWorkers
    /\ cloud = NoCloud
    /\ readiness = NoReadiness

NextRecovery == TickSoon

SpecRecovery == InitRecovery /\ [][NextRecovery]_vars

\* The tick matched a threshold of the severity of the stored alert, less than one
\* hour after the stored timestamp, the tick before having found the SLO recovered
RebreachWithinTheHour ==
    /\ Evaluated
    /\ tick.afterRecovery
    /\ tick.prior.present
    /\ Candidate(slo.burnAlerts.thresholds, tick.status.burnRate).severity
          = tick.prior.severity
    /\ tick.at - tick.prior.timestamp < OneHourMs

\* C29: an SLO that alerted at severity S, recovered (lastBurnAlertState is kept),
\* and matches a threshold of severity S again less than one hour after the stored
\* alert timestamp gets shouldAlert = false, and the stored state stays as it was
C29_RebreachSuppressed ==
    RebreachWithinTheHour =>
        /\ tick.decision = NoAlert
        /\ tick.dispatch = "none"
        /\ slo.lastBurnAlertState = tick.prior

\* A re-breach 40 minutes after a warning alert, the tick at 20 minutes having found
\* the burn rate below every threshold
C29_Witness ==
    /\ RebreachWithinTheHour
    /\ ticks = 2
    /\ tick.at = 40 * 60 * 1000
    /\ tick.prior = AlertState("warning", 0)
    /\ alertLog = <<[severity |-> "warning", timestamp |-> 0, dispatch |-> "sent"]>>

-----------------------------------------------------------------------------
(* Two overlapping ticks evaluating the same SLO (SpecOverlap) *)

Workers == {1, 2}

\* The times at which the two overlapping ticks run: within the hour after the
\* stored alert, or after it
OverlapClock == {30 * 60 * 1000, 2 * 60 * 60 * 1000}

\* The burn rate both ticks compute from the same window
OverlapBurnRates == {Whole(0), Whole(1), Whole(2)}

IdleWorker == [pc |-> "idle"]

\* The tick of worker w reads the SLO document from the configuration store
LoadSLO(w) ==
    /\ workers.kind = "overlap"
    /\ workers.of[w].pc = "idle"
    /\ workers' = [workers EXCEPT !.of[w] = [pc |-> "loaded", doc |-> slo]]
    /\ UNCHANGED <<slo, webhook, now, data, statusResult, burnRateResult, tick,
                   alertLog, ticks, cloud, readiness>>
    /\ UNCHANGED storeVars

\* checkSLOBurnAlerts on the document the tick has read
CheckAlerts(w) ==
    /\ workers.kind = "overlap"
    /\ workers.of[w].pc = "loaded"
    /\ LET decision == checkSLOBurnAlerts(workers.of[w].doc, workers.burnRate,
                                          webhook, now)
       IN  workers' = [workers EXCEPT !.of[w] =
                          [pc |-> IF decision.shouldAlert THEN "decided" ELSE "done",
                           doc |-> workers.of[w].doc, decision |-> decision,
                           dispatch |-> "none", written |-> FALSE]]
    /\ UNCHANGED <<slo, webhook, now, data, statusResult, burnRateResult, tick,
                   alertLog, ticks, cloud, readiness>>
    /\ UNCHANGED storeVars

\* On a decision to alert the notification is dispatched
DispatchAlert(w) ==
    /\ workers.kind = "overlap"
    /\ workers.of[w].pc = "decided"
    /\ \E delivered \in BOOLEAN :
          LET outcome == IF sendSLOBurnAlert(delivered) = "returned"
                         THEN "sent" ELSE "failed"
          IN  /\ workers' = [workers EXCEPT !.of[w].pc = "dispatched",
                                            !.of[w].dispatch = outcome]
              /\ alertLog' = Append(alertLog,
                                    [severity |-> workers.of[w].decision.severity,
                                     timestamp |-> now, dispatch |-> outcome])
    /\ UNCHANGED <<slo, webhook, now, data, statusResult, burnRateResult, tick,
                   ticks, cloud, readiness>>
    /\ UNCHANGED storeVars

\* The update of lastBurnAlertState after the dispatch: a conditional update keyed
\* by SLO id, applied when the stored state is still the one the tick has read
UpdateAlertState(w) ==
    /\ workers.kind = "overlap"
    /\ workers.of[w].pc = "dispatched"
    /\ LET applies == slo.lastBurnAlertState = workers.of[w].doc.lastBurnAlertState
       IN  /\ slo' = IF applies
                     THEN [slo EXCEPT !.lastBurnAlertState =
                                 AlertState(workers.of[w].decision.severity, now)]
                     ELSE slo
           /\ workers' = [workers EXCEPT !.of[w].pc = "done",
                                         !.of[w].written = applies]
    /\ UNCHANGED <<webhook, now, data, statusResult, burnRateResult, tick,
                   alertLog, ticks, cloud, readiness>>
    /\ UNCHANGED storeVars

InitOverlap ==
    /\ slo \in [targetValue : {Whole(90)}, timeWindow : {"1h"},
                burnAlerts : {[present |-> TRUE, enabled |-> TRUE, thresholds |-> th] :
                                 th \in SeqsUpTo(Thresholds, 1)},
                lastBurnAlertState : AlertStates]
    /\ webhook = TRUE
    /\ now \in OverlapClock
    /\ data = <<>>
    /\ statusResult = NoResult
    /\ burnRateResult = NoResult
    /\ tick = NoTick
    /\ alertLog = <<>>
    /\ ticks = 0
    /\ aggregates = {}
    /\ rawEvents = {}
    /\ call = NoCall
    /\ batch = NoBatch
    /\ workers \in [kind : {"overlap"}, burnRate : OverlapBurnRates,
                    of : {[w \in Workers |-> IdleWorker]}]
    /\ cloud = NoCloud
    /\ readiness = NoReadiness

NextOverlap ==
    \E w \in Workers :
       \/ LoadSLO(w)
       \/ CheckAlerts(w)
       \/ DispatchAlert(w)
       \/ UpdateAlertState(w)

SpecOverlap == InitOverlap /\ [][NextOverlap]_vars

\* The evaluations that have dispatched an alert of severity s
FiredAt(s) ==
    {w \in Workers : /\ workers.of[w].pc \in {"dispatched", "done"}
                     /\ workers.of[w].decision.shouldAlert
                     /\ workers.of[w].decision.severity = s}

\* C21: of two overlapping ticks that evaluate the same SLO with the same burn rate
\* and the same initial lastBurnAlertState, at most one fires an alert of a given
\* severity, and every evaluation that fired has its update of lastBurnAlertState
\* applied
C21_AtMostOneFires ==
    workers.kind = "overlap" =>
        /\ \A s \in Severities : Cardinality(FiredAt(s)) <= 1
        /\ \A w \in Workers :
              (workers.of[w].pc = "done" /\ workers.of[w].decision.shouldAlert)
                  => workers.of[w].written

-----------------------------------------------------------------------------
(* The real-time status against the raw events (SpecRealtime) *)

MaxEvents == 2

\* Timestamps of raw events: inside the second in which the window starts, well
\* inside the window, and inside the second in which the latest read is served
EventTimestamps == {1200, 2000, ms("1h") + 1300}

RawEvents == [timestamp : EventTimestamps, matchesFilter : BOOLEAN, good : BOOLEAN]

\* getSLOStatus served against a source table of up to MaxEvents events
InitRealtime ==
    /\ slo \in {[id |-> "slo1", team |-> "teamA",
                  filter |-> m.filter, goodCondition |-> m.goodCondition,
                  targetValue |-> Whole(90), timeWindow |-> "1h",
                  burnAlerts |-> NoBurnAlerts, lastBurnAlertState |-> NoAlertState] :
                    m \in SliModes}
    /\ webhook = FALSE
    /\ now \in ReadClock
    /\ data = <<>>
    /\ statusResult = NoResult
    /\ burnRateResult = NoResult
    /\ tick = NoTick
    /\ alertLog = <<>>
    /\ ticks = 0
    /\ aggregates = {}
    /\ rawEvents \in {T \in SUBSET RawEvents : Cardinality(T) <= MaxEvents}
    /\ call = NoCall
    /\ batch = NoBatch
    /\ workers = NoWorkers
    /\ cloud = NoCloud
    /\ readiness = NoReadiness

NextRealtime == GetSLOStatusRequest

SpecRealtime == InitRealtime /\ [][NextRealtime]_vars

\* getSLOStatus answered from the raw events
StatusFromRawEvents ==
    /\ call.op = "getSLOStatus"
    /\ call.result.kind = "status"
    /\ call.realtime /\ slo.filter /\ slo.goodCondition

\* The raw events in [windowStart, windowEnd] = [now - timeWindow, now] that match filter
EventsOfWindow ==
    {e \in rawEvents : /\ e.matchesFilter
                       /\ e.timestamp >= now - ms(slo.timeWindow)
                       /\ e.timestamp <= now}

\* C24: in real-time mode on a builder-mode SLO getSLOStatus takes denominator =
\* the number of raw events in [windowStart, windowEnd] matching filter and
\* numerator = the number of those that also match goodCondition, so that
\* numerator <= denominator.
C24_RealtimeCounts ==
    StatusFromRawEvents =>
        /\ call.result.denominator = Cardinality(EventsOfWindow)
        /\ call.result.numerator = Cardinality({e \in EventsOfWindow : e.good})
        /\ call.result.numerator <= call.result.denominator

-----------------------------------------------------------------------------
(* CloudMetricsCollectorTask over the cloud-provider connections (SpecCloud) *)

MaxConnections == 2

\* new Date() during the run; earlier syncs happened at time 5
RunDate == 10

\* A stored connection before the run: never synced, synced, or failed after an
\* earlier sync
SyncStates ==
    {[lastSyncAt |-> 0, lastSyncStatus |-> "none", lastSyncError |-> "none"],
     [lastSyncAt |-> 5, lastSyncStatus |-> "success", lastSyncError |-> "none"],
     [lastSyncAt |-> 5, lastSyncStatus |-> "error", lastSyncError |-> "earlier error"]}

Connections ==
    {[enabled |-> e, lastSyncAt |-> s.lastSyncAt, lastSyncStatus |-> s.lastSyncStatus,
      lastSyncError |-> s.lastSyncError] : e \in BOOLEAN, s \in SyncStates}

\* this.args.connectionId: 0 when the argument is absent
ConnectionIds == 0..MaxConnections

\* What happens inside the try block of processConnection: createCollector throws
\* on an unknown provider, collect throws or returns metrics or none, insertMetrics
\* throws or returns, and the update to SUCCESS is applied or rejected
Attempts ==
    {[collect |-> "unknown provider", insert |-> "skipped", update |-> "skipped"],
     [collect |-> "threw", insert |-> "skipped", update |-> "skipped"],
     [collect |-> "metrics", insert |-> "threw", update |-> "skipped"]}
    \cup {[collect |-> c.collect, insert |-> c.insert, update |-> u] :
             c \in {[collect |-> "metrics", insert |-> "returned"],
                    [collect |-> "empty", insert |-> "skipped"]},
             u \in {"applied", "rejected"}}

\* The error that reaches the catch block, "none" when the try block completes
ErrorOf(attempt) ==
    IF attempt.collect = "unknown provider" THEN "Unknown cloud provider"
    ELSE IF attempt.collect = "threw" THEN "collect failed"
    ELSE IF attempt.insert = "threw" THEN "insert failed"
    ELSE IF attempt.update = "rejected" THEN "update failed"
    ELSE "none"

\* Mutant: the error update also sets lastSyncAt
processConnectionStampingErrors(connection, attempt, errorUpdateApplied) ==
    LET error == ErrorOf(attempt)
    IN  IF error = "none"
        THEN [connection |-> [connection EXCEPT !.lastSyncAt = RunDate,
                                                !.lastSyncStatus = "success",
                                                !.lastSyncError = "none"],
              threw |-> FALSE]
        ELSE IF errorUpdateApplied
        THEN [connection |-> [connection EXCEPT !.lastSyncAt = RunDate,
                                                !.lastSyncStatus = "error",
                                                !.lastSyncError = error],
              threw |-> FALSE]
        ELSE [connection |-> connection, threw |-> TRUE]

\* processConnection: the stored connection afterwards, and whether the call threw
processConnection(connection, attempt, errorUpdateApplied) ==
    LET error == ErrorOf(attempt)
    IN  IF error = "none"
        THEN [connection |-> [connection EXCEPT !.lastSyncAt = RunDate,
                                                !.lastSyncStatus = "success",
                                                !.lastSyncError = "none"],
              threw |-> FALSE]
        ELSE IF errorUpdateApplied
        THEN [connection |-> [connection EXCEPT !.lastSyncStatus = "error",
                                                !.lastSyncError = error],
              threw |-> FALSE]
        ELSE [connection |-> connection, threw |-> TRUE]

\* CloudProviderConnection.find({enabled: true[, _id: connectionId]})
FindConnections(connections, connectionId) ==
    LET Matches(i) == /\ connections[i].enabled
                      /\ (connectionId # 0 => i = connectionId)
        F[i \in 0..Len(connections)] ==
            IF i = 0 THEN <<>>
            ELSE IF Matches(i) THEN Append(F[i - 1], i) ELSE F[i - 1]
    IN  F[Len(connections)]

\* execute up to the loop: connectDB, then the find
StartCollection ==
    /\ cloud.phase = "idle"
    /\ \E connected \in BOOLEAN, found \in BOOLEAN :
          cloud' = IF connected /\ found
                   THEN [cloud EXCEPT
                            !.phase = "running",
                            !.selected = FindConnections(cloud.connections,
                                                         cloud.connectionId)]
                   ELSE [cloud EXCEPT !.phase = "threw"]
    /\ UNCHANGED <<slo, webhook, now, data, statusResult, burnRateResult, tick,
                   alertLog, ticks, workers, readiness>>
    /\ UNCHANGED storeVars

\* One turn of the loop: processConnection inside the span, whose catch keeps
\* whatever it throws
ProcessNextConnection ==
    /\ cloud.phase = "running"
    /\ Len(cloud.processed) < Len(cloud.selected)
    /\ \E attempt \in Attempts, errorUpdateApplied \in BOOLEAN :
          LET i == cloud.selected[Len(cloud.processed) + 1]
              before == cloud.connections[i]
              out == processConnection(before, attempt, errorUpdateApplied)
          IN  cloud' = [cloud EXCEPT
                           !.connections[i] = out.connection,
                           !.processed = Append(@, [id |-> i, before |-> before,
                                                    attempt |-> attempt,
                                                    error |-> ErrorOf(attempt),
                                                    threw |-> out.threw])]
    /\ UNCHANGED <<slo, webhook, now, data, statusResult, burnRateResult, tick,
                   alertLog, ticks, workers, readiness>>
    /\ UNCHANGED storeVars

\* The loop is over and execute returns
FinishCollection ==
    /\ cloud.phase = "running"
    /\ Len(cloud.processed) = Len(cloud.selected)
    /\ cloud' = [cloud EXCEPT !.phase = "finished"]
    /\ UNCHANGED <<slo, webhook, now, data, statusResult, burnRateResult, tick,
                   alertLog, ticks, workers, readiness>>
    /\ UNCHANGED storeVars

InitCloud ==
    /\ slo \in [targetValue : {Whole(90)}, timeWindow : {"1h"},
                burnAlerts : {NoBurnAlerts}, lastBurnAlertState : {NoAlertState}]
    /\ webhook = FALSE
    /\ now = 0
    /\ data = <<>>
    /\ statusResult = NoResult
    /\ burnRateResult = NoResult
    /\ tick = NoTick
    /\ alertLog = <<>>
    /\ ticks = 0
    /\ aggregates = {}
    /\ rawEvents = {}
    /\ call = NoCall
    /\ batch = NoBatch
    /\ workers = NoWorkers
    /\ cloud \in [kind : {"collector"}, phase : {"idle"},
                  connections : [1..MaxConnections -> Connections],
                  connectionId : ConnectionIds,
                  selected : {<<>>}, processed : {<<>>}]
    /\ readiness = NoReadiness

NextCloud == StartCollection \/ ProcessNextConnection \/ FinishCollection

SpecCloud == InitCloud /\ [][NextCloud]_vars

\* The connections the run has to process: enabled, and the one named by the
\* argument when there is one
Selected ==
    {i \in 1..Len(cloud.connections) :
        /\ cloud.connections[i].enabled
        /\ (cloud.connectionId # 0 => i = cloud.connectionId)}

\* Every selected connection has been processed once when execute returns
AllProcessed ==
    cloud.phase = "finished" =>
        /\ {cloud.processed[k].id : k \in 1..Len(cloud.processed)} = Selected
        /\ Len(cloud.processed) = Cardinality(Selected)

\* Collection and insertion succeeded for the processed connection p
Collected(p) ==
    /\ p.attempt.collect \in {"metrics", "empty"}
    /\ p.attempt.insert # "threw"

SyncedNow(i) ==
    /\ cloud.connections[i].lastSyncStatus = "success"
    /\ cloud.connections[i].lastSyncError = "none"
    /\ cloud.connections[i].lastSyncAt = RunDate

FailedNow(p) ==
    /\ cloud.connections[p.id].lastSyncStatus = "error"
    /\ cloud.connections[p.id].lastSyncError = p.error
    /\ cloud.connections[p.id].lastSyncAt = p.before.lastSyncAt

\* C26 as stated: every selected connection is processed even when an earlier one
\* fails; a processed connection whose collection and insertion succeeded has
\* lastSyncStatus SUCCESS, no lastSyncError and a new lastSyncAt, and one that
\* failed has lastSyncStatus ERROR with the error message and lastSyncAt unchanged
C26_StatusAfterProcessing ==
    cloud.kind = "collector" =>
        /\ AllProcessed
        /\ \A k \in 1..Len(cloud.processed) :
              LET p == cloud.processed[k]
              IN  IF Collected(p) THEN SyncedNow(p.id) ELSE FailedNow(p)

\* C26 amended: the same, where the update of the status itself is applied: SUCCESS
\* when the try block completes, ERROR with the message of whatever was thrown in
\* it (the rejected update to SUCCESS included) when the update in the catch block
\* is applied, and the connection as it was when that update is rejected too
C26_StatusAfterAppliedUpdate ==
    cloud.kind = "collector" =>
        /\ AllProcessed
        /\ \A k \in 1..Len(cloud.processed) :
              LET p == cloud.processed[k]
              IN  IF p.error = "none" THEN SyncedNow(p.id)
                  ELSE IF ~p.threw THEN FailedNow(p)
                  ELSE cloud.connections[p.id] = p.before

\* Two connections processed in one run: insertion failed for the first, which had
\* synced before, and the second synced
C26_Witness ==
    /\ cloud.kind = "collector"
    /\ cloud.phase = "finished"
    /\ Len(cloud.processed) = 2
    /\ cloud.processed[1].attempt.insert = "threw"
    /\ ~cloud.processed[1].threw
    /\ cloud.processed[1].before.lastSyncStatus = "success"
    /\ cloud.processed[2].error = "none"
    /\ cloud.processed[2].before.lastSyncStatus = "error"

-----------------------------------------------------------------------------
(* The readiness score of a service (SpecReadiness) *)

MaxReports == 2

NumAdd(x, y) == NumSub(x, [num |-> -y.num, den |-> y.den])

\* Math.round of a finite number that is not negative
MathRound(x) == (2 * x.num + x.den) \div (2 * x.den)

PASS == "pass"
FAIL == "fail"

\* The checks RunReadinessChecksTask evaluates
BuiltInChecks == {"HAS_OWNER", "HAS_RUNBOOK", "HAS_REPO", "HAS_SLO", "HAS_LOGS",
                  "HAS_TRACES"}

\* checkType is a free string for reportServiceCheck
CheckTypes == BuiltInChecks \cup {"CUSTOM_CHECK"}

DEFAULT_PILLARS ==
    <<[key |-> "telemetry", weight |-> 35], [key |-> "reliability", weight |-> 35],
      [key |-> "ownership", weight |-> 15], [key |-> "documentation", weight |-> 15]>>

DEFAULT_RULES ==
    [t \in BuiltInChecks |->
        [pillar |-> IF t \in {"HAS_LOGS", "HAS_TRACES"} THEN "telemetry"
                    ELSE IF t = "HAS_SLO" THEN "reliability"
                    ELSE IF t = "HAS_OWNER" THEN "ownership"
                    ELSE "documentation",
         weight |-> 1]]

\* No ServiceCheck document for a check type
NoCheck == [status |-> "absent"]

RECURSIVE SumOfWeights(_)
SumOfWeights(entries) ==
    IF entries = {} THEN 0
    ELSE LET e == CHOOSE x \in entries : TRUE
         IN  e.weight + SumOfWeights(entries \ {e})

\* pillarScores[key] after the loop over the checks
PillarStats(entries, key) ==
    [totalWeight |-> SumOfWeights({e \in entries : e.pillar = key}),
     passedWeight |-> SumOfWeights({e \in entries : e.pillar = key /\ e.status = PASS})]

\* totalScore and totalPillarWeight after the first n pillars
RECURSIVE ScoreTotals(_, _, _)
ScoreTotals(entries, pillars, n) ==
    IF n = 0 THEN [totalScore |-> Whole(0), totalPillarWeight |-> 0]
    ELSE LET sofar == ScoreTotals(entries, pillars, n - 1)
             stats == PillarStats(entries, pillars[n].key)
         IN  IF stats.totalWeight > 0
             THEN LET pScore == NumMul(Num(stats.passedWeight, stats.totalWeight),
                                       Whole(100))
                  IN  [totalScore |-> NumAdd(sofar.totalScore,
                                             NumMul(pScore, Whole(pillars[n].weight))),
                       totalPillarWeight |-> sofar.totalPillarWeight + pillars[n].weight]
             ELSE sofar

FinalScore(entries, pillars) ==
    LET totals == ScoreTotals(entries, pillars, Len(pillars))
    IN  IF totals.totalPillarWeight > 0
        THEN MathRound(NumDiv(totals.totalScore, Whole(totals.totalPillarWeight)))
        ELSE 0

Readiness(finalScore) ==
    IF finalScore >= 90 THEN "gold"
    ELSE IF finalScore >= 70 THEN "silver"
    ELSE IF finalScore >= 40 THEN "bronze"
    ELSE "fail"

\* calculateServiceScore: the score and readiness it stores, from every stored
\* check of the service under the default pillars
calculateServiceScore(checks) ==
    LET entries == {[checkType |-> t, status |-> checks[t].status,
                     pillar |-> IF checks[t].pillar = "" THEN "other"
                                ELSE checks[t].pillar,
                     weight |-> IF checks[t].checkWeight = 0 THEN 1
                                ELSE checks[t].checkWeight] :
                        t \in {x \in DOMAIN checks : checks[x] # NoCheck}}
        finalScore == FinalScore(entries, DEFAULT_PILLARS)
    IN  [score |-> finalScore, readiness |-> Readiness(finalScore)]

\* The check results the task builds for a service
CheckResults(service, hasSlo, telemetry) ==
    [t \in BuiltInChecks |->
        IF t = "HAS_OWNER" THEN (IF service.owner THEN PASS ELSE FAIL)
        ELSE IF t = "HAS_RUNBOOK" THEN (IF service.runbookUrl THEN PASS ELSE FAIL)
        ELSE IF t = "HAS_REPO" THEN (IF service.repoUrl THEN PASS ELSE FAIL)
        ELSE IF t = "HAS_SLO" THEN (IF hasSlo THEN PASS ELSE FAIL)
        ELSE IF t = "HAS_LOGS"
        THEN (IF telemetry.ok /\ telemetry.logs THEN PASS ELSE FAIL)
        ELSE (IF telemetry.ok /\ telemetry.traces THEN PASS ELSE FAIL)]

\* The telemetry counts of the task: the queries fail, or say whether there are
\* logs and traces
TelemetryOutcomes ==
    {[ok |-> FALSE, logs |-> FALSE, traces |-> FALSE]}
    \cup [ok : {TRUE}, logs : BOOLEAN, traces : BOOLEAN]

\* The score the task computes from its own check results under the default rules
TaskScore(results) ==
    LET entries == {[checkType |-> t, status |-> results[t],
                     pillar |-> DEFAULT_RULES[t].pillar,
                     weight |-> DEFAULT_RULES[t].weight] : t \in BuiltInChecks}
        finalScore == FinalScore(entries, DEFAULT_PILLARS)
    IN  [score |-> finalScore, readiness |-> Readiness(finalScore)]

\* The checks reportServiceCheck is called with
ReportedChecks ==
    [checkType : {"HAS_SLO", "CUSTOM_CHECK"}, status : {PASS, FAIL},
     pillar : {"reliability", "security"}, checkWeight : {1, 2}]

\* reportServiceCheck: the check is upserted and the score recalculated
ReportServiceCheck ==
    /\ readiness.kind = "service"
    /\ readiness.reports < MaxReports
    /\ \E check \in ReportedChecks :
          LET checks == [readiness.checks EXCEPT
                            ![check.checkType] =
                                [status |-> check.status, pillar |-> check.pillar,
                                 checkWeight |-> check.checkWeight]]
              stored == calculateServiceScore(checks)
          IN  readiness' = [readiness EXCEPT
                               !.checks = checks,
                               !.score = stored.score,
                               !.readiness = stored.readiness,
                               !.reports = @ + 1,
                               !.last = "reportServiceCheck"]
    /\ UNCHANGED <<slo, webhook, now, data, statusResult, burnRateResult, tick,
                   alertLog, ticks, workers, cloud>>
    /\ UNCHANGED storeVars

\* RunReadinessChecksTask on the service: the six checks are upserted with the
\* pillar and weight of their rule, and the score of these six is stored
RunReadinessChecks ==
    /\ readiness.kind = "service"
    /\ \E hasSlo \in BOOLEAN, telemetry \in TelemetryOutcomes :
          LET results == CheckResults(readiness.service, hasSlo, telemetry)
              stored == TaskScore(results)
          IN  readiness' = [readiness EXCEPT
                               !.checks = [t \in CheckTypes |->
                                              IF t \in BuiltInChecks
                                              THEN [status |-> results[t],
                                                    pillar |-> DEFAULT_RULES[t].pillar,
                                                    checkWeight |-> DEFAULT_RULES[t].weight]
                                              ELSE readiness.checks[t]],
                               !.score = stored.score,
                               !.readiness = stored.readiness,
                               !.last = "RunReadinessChecksTask"]
    /\ UNCHANGED <<slo, webhook, now, data, statusResult, burnRateResult, tick,
                   alertLog, ticks, workers, cloud>>
    /\ UNCHANGED storeVars

InitReadiness ==
    /\ slo \in [targetValue : {Whole(90)}, timeWindow : {"1h"},
                burnAlerts : {NoBurnAlerts}, lastBurnAlertState : {NoAlertState}]
    /\ webhook = FALSE
    /\ now = 0
    /\ data = <<>>
    /\ statusResult = NoResult
    /\ burnRateResult = NoResult
    /\ tick = NoTick
    /\ alertLog = <<>>
    /\ ticks = 0
    /\ aggregates = {}
    /\ rawEvents = {}
    /\ call = NoCall
    /\ batch = NoBatch
    /\ workers = NoWorkers
    /\ cloud = NoCloud
    /\ readiness \in [kind : {"service"},
                      service : [owner : BOOLEAN, runbookUrl : BOOLEAN,
                                 repoUrl : BOOLEAN],
                      checks : {[t \in CheckTypes |-> NoCheck]},
                      score : {0}, readiness : {"fail"},
                      reports : {0}, last : {"none"}]

NextReadiness == ReportServiceCheck \/ RunReadinessChecks

SpecReadiness == InitReadiness /\ [][NextReadiness]_vars

\* C30: after RunReadinessChecksTask has processed a service, the score and the
\* readiness stored on it are those calculateServiceScore computes from the
\* service's stored checks, custom check types reported through
\* reportServiceCheck included
C30_TaskScoreIsCalculatedScore ==
    (readiness.kind = "service" /\ readiness.last = "RunReadinessChecksTask") =>
        /\ readiness.score = calculateServiceScore(readiness.checks).score
        /\ readiness.readiness = calculateServiceScore(readiness.checks).readiness

====
